---- MODULE Spec2Model ----
(***************************************************************************)
(* Model of src/app.py: the Streamlit page that resolves a Hugging Face    *)
(* token at start-up and calls the text-to-image endpoint through          *)
(* call_hf_text2image, a bounded retry loop around requests.post.          *)
(*                                                                         *)
(* Strings that the code inspects character by character (the response     *)
(* content-type, tested with str.startswith) are sequences of one-letter   *)
(* strings.  A response body is the pair of its raw bytes (content) and    *)
(* what r.json() makes of them (json).                                     *)
(***************************************************************************)
EXTENDS Integers, Sequences, FiniteSets, TLC

VARIABLES
    secrets,      \* st.secrets: a mapping from key names to values
    environ,      \* os.environ: a mapping from variable names to values
    HF_TOKEN,     \* the module-level HF_TOKEN (line 23)
    ui,           \* what the page has rendered so far
    pc,           \* position of the script / of call_hf_text2image
    max_retries,  \* argument of the running call
    attempt,      \* loop variable of the running call
    r,            \* the response of the latest requests.post
    log,          \* the requests.post and time.sleep calls of the running call
    result,       \* the value the call returned
    error,        \* the exception the call raised
    request,      \* the arguments of the running call
    payload,      \* the JSON body the running call posts
    caller,       \* who runs the call: the button handler or a direct caller
    calls         \* how many calls have been started

vars == <<secrets, environ, HF_TOKEN, ui, pc, max_retries, attempt, r, log, result, error,
          request, payload, caller, calls>>

----------------------------------------------------------------------------
(* Bounds of the model *)

\* the largest max_retries a caller passes
MaxRetriesBound == 3

\* the values of max_retries callers pass (range() of a value <= 0 is empty)
RetryArgs == (-1)..MaxRetriesBound

\* the number of calls in one run of the model
MaxCalls == 2

----------------------------------------------------------------------------
(* Credential sources *)

KEY == "HF_TOKEN"

\* a mapping that lacks KEY, or holds one of vals under it
Sources(vals) == {[k \in {} |-> ""]} \cup {[k \in {KEY} |-> v] : v \in vals}

SecretStores == Sources({"", "A"})

Environments == Sources({"", "B"})

\* os.getenv(name): None (here "") when the variable is not set;
\* the caller tests the result for truth, which None and "" both fail
getenv(e, name) == IF name \in DOMAIN e THEN e[name] ELSE ""

get_hf_token_env_first(s, e) ==
    IF getenv(e, KEY) # "" THEN getenv(e, KEY)
    ELSE IF KEY \in DOMAIN s THEN s[KEY]
    ELSE ""

get_hf_token(s, e) ==
    IF KEY \in DOMAIN s THEN s[KEY]
    ELSE IF getenv(e, KEY) # "" THEN getenv(e, KEY)
    ELSE ""

TokenMissing_never(tok) == FALSE

\* `not HF_TOKEN`
TokenMissing(tok) == tok = ""

----------------------------------------------------------------------------
(* HTTP responses *)

ImagePrefix == <<"i", "m", "a", "g", "e", "/">>

CtImagePng == ImagePrefix \o <<"p", "n", "g">>

CtImageUpper == <<"I", "M", "A", "G", "E", "/", "p", "n", "g">>

CtTextPlain == <<"t", "e", "x", "t", "/", "p", "l", "a", "i", "n">>

CtJson == <<"a", "p", "p", "l", "i", "c", "a", "t", "i", "o", "n", "/", "j", "s", "o", "n">>

\* no content-type header: r.headers.get("content-type", "") gives ""
CtNone == << >>

\* str.startswith
startswith(s, prefix) ==
    /\ Len(s) >= Len(prefix)
    /\ SubSeq(s, 1, Len(prefix)) = prefix

\* JSON values of the estimated_time field
JNum(n) == [vt |-> "num", n |-> n]

JNull == [vt |-> "null", n |-> 0]

JStr == [vt |-> "str", n |-> 0]

\* what r.json() makes of a body: it raises ("invalid"), or gives a list
\* ("array"), or a dict with or without the key estimated_time
JsonInvalid == [kind |-> "invalid", has |-> FALSE, est |-> JNull]

JsonArray == [kind |-> "array", has |-> FALSE, est |-> JNull]

JsonObject == [kind |-> "object", has |-> FALSE, est |-> JNull]

JsonEstimate(v) == [kind |-> "object", has |-> TRUE, est |-> v]

Response(status, ctype, content, json) ==
    [status |-> status, ctype |-> ctype, content |-> content, json |-> json]

\* the value of r before the first requests.post
NoResponse == Response(0, CtNone, "", JsonInvalid)

\* the estimates the service reports
ReportedEstimates == {-4, 0, 2, 3, 17, 30, 31}

\* 503/504 answers of a loading model
LoadingResponses ==
    {Response(503, CtJson, "est", JsonEstimate(JNum(n))) : n \in ReportedEstimates}
    \cup {Response(503, CtJson, "est_null", JsonEstimate(JNull)),
          Response(503, CtJson, "est_str", JsonEstimate(JStr)),
          Response(503, CtJson, "obj", JsonObject),
          Response(503, CtJson, "arr", JsonArray),
          Response(503, CtNone, "", JsonInvalid),
          Response(503, CtImagePng, "png1", JsonInvalid),
          Response(504, CtTextPlain, "gateway", JsonInvalid),
          Response(504, CtJson, "est", JsonEstimate(JNum(45)))}

\* every other answer
FinalResponses ==
    {Response(200, CtImagePng, "png1", JsonInvalid),
     Response(200, CtImagePng, "png2", JsonInvalid),
     Response(200, CtTextPlain, "text", JsonInvalid),
     Response(200, CtJson, "obj", JsonObject),
     Response(200, CtImageUpper, "png1", JsonInvalid),
     Response(200, CtNone, "png1", JsonInvalid),
     Response(404, CtJson, "obj", JsonObject),
     Response(500, CtTextPlain, "text", JsonInvalid)}

Responses == LoadingResponses \cup FinalResponses

----------------------------------------------------------------------------
(* call_hf_text2image *)

DefaultEstimate == 10

MinSleep == 3

MaxSleep == 30

\* Python's builtins on two numbers
max(a, b) == IF b > a THEN b ELSE a

min(a, b) == IF b < a THEN b ELSE a

IsImageResponse_exact(resp) == resp.status = 200 /\ resp.ctype = ImagePrefix

IsImageResponse_any_status(resp) == startswith(resp.ctype, ImagePrefix)

\* r.status_code == 200 and ctype.startswith("image/")
IsImageResponse(resp) == resp.status = 200 /\ startswith(resp.ctype, ImagePrefix)

IsTransient_any5xx(resp) == resp.status >= 500

\* r.status_code in (503, 504)
IsTransient(resp) == resp.status \in {503, 504}

Estimate_no_default(resp) ==
    IF resp.json.kind = "object" /\ resp.json.has THEN resp.json.est
    ELSE JNum(MinSleep)

\* try: j = r.json(); est = j.get("estimated_time", 10)
\* except Exception: est = 10
\* (r.json() raises on a body that is no JSON; a list has no .get)
Estimate(resp) ==
    IF resp.json.kind = "invalid" THEN JNum(DefaultEstimate)
    ELSE IF resp.json.kind # "object" THEN JNum(DefaultEstimate)
    ELSE IF resp.json.has THEN resp.json.est
    ELSE JNum(DefaultEstimate)

\* max(est, 3) compares est with an int: a TypeError unless est is a number
Comparable(est) == est.vt = "num"

Clamp_no_floor(n) == min(n, MaxSleep)

Clamp_swapped(n) == max(min(n, MinSleep), MaxSleep)

\* min(max(est, 3), 30)
Clamp(n) == min(max(n, MinSleep), MaxSleep)

\* the entries of log
PostEvent(resp) == [op |-> "post", resp |-> resp, secs |-> 0]

SleepEvent(secs) == [op |-> "sleep", resp |-> NoResponse, secs |-> secs]

\* the exceptions
Raised(kind, resp, body) ==
    [kind |-> kind, status |-> resp.status, ctype |-> resp.ctype, body |-> body]

\* the body shown in an exception's message
Shown(how, content) == [how |-> how, content |-> content]

NoBody == Shown("none", "")

NoError == Raised("none", NoResponse, NoBody)

\* try: err = r.json()  except Exception: err = r.text
ErrBody(resp) ==
    IF resp.json.kind = "invalid" THEN Shown("text", resp.content)
    ELSE Shown("json", resp.content)

----------------------------------------------------------------------------
(* The request and its payload *)

\* seed: int | None
None == [none |-> TRUE, v |-> 0]

Some(n) == [none |-> FALSE, v |-> n]

\* the arguments of call_hf_text2image other than max_retries;
\* guidance is a float, kept in tenths
Request(prompt, negative_prompt, steps, guidance, width, height, seed) ==
    [prompt |-> prompt, negative_prompt |-> negative_prompt, steps |-> steps,
     guidance |-> guidance, width |-> width, height |-> height, seed |-> seed]

\* the defaults of the signature
DefaultRequest == Request("a street", "", 30, 70, 1024, 1024, None)

\* no call is running
NoRequest == Request("", "", 0, 0, 0, 0, None)

NoPayload == [inputs |-> "", parameters |-> [k \in {} |-> 0], options |-> [k \in {} |-> 0]]

\* the truth value of a str
Truthy(s) == s # ""

\* d[k] = v on a dict
SetItem(d, k, v) == (k :> v) @@ d

Parameters_placeholder(req) ==
    LET base == [num_inference_steps |-> req.steps, guidance_scale |-> req.guidance,
                 width |-> req.width, height |-> req.height]
        neg == SetItem(base, "negative_prompt", req.negative_prompt)
    IN  IF ~req.seed.none THEN SetItem(neg, "seed", req.seed.v) ELSE neg

Parameters_truthy_seed(req) ==
    LET base == [num_inference_steps |-> req.steps, guidance_scale |-> req.guidance,
                 width |-> req.width, height |-> req.height]
        neg == IF Truthy(req.negative_prompt)
               THEN SetItem(base, "negative_prompt", req.negative_prompt)
               ELSE base
    IN  IF ~req.seed.none /\ req.seed.v # 0 THEN SetItem(neg, "seed", req.seed.v) ELSE neg

\* payload["parameters"] after lines 46-63
Parameters(req) ==
    LET base == [num_inference_steps |-> req.steps, guidance_scale |-> req.guidance,
                 width |-> req.width, height |-> req.height]
        neg == IF Truthy(req.negative_prompt)
               THEN SetItem(base, "negative_prompt", req.negative_prompt)
               ELSE base
    IN  IF ~req.seed.none THEN SetItem(neg, "seed", req.seed.v) ELSE neg

\* payload after lines 46-63
Payload(req) ==
    [inputs |-> req.prompt,
     parameters |-> Parameters(req),
     options |-> [wait_for_model |-> TRUE]]

----------------------------------------------------------------------------
(* The widgets: lines 114-126 *)

Digits == {"0", "1", "2", "3", "4", "5", "6", "7", "8", "9"}

\* the character U+00B2 (superscript two): str.isdigit accepts it, int rejects it
Sup2 == "sup2"

DigitValue(c) ==
    CASE c = "0" -> 0 [] c = "1" -> 1 [] c = "2" -> 2 [] c = "3" -> 3 [] c = "4" -> 4
      [] c = "5" -> 5 [] c = "6" -> 6 [] c = "7" -> 7 [] c = "8" -> 8 [] c = "9" -> 9

\* str.split(sep), sep one character
RECURSIVE split(_, _)
split(s, sep) ==
    IF \A i \in 1..Len(s) : s[i] # sep THEN <<s>>
    ELSE LET i == CHOOSE i \in 1..Len(s) : s[i] = sep /\ \A j \in 1..(i - 1) : s[j] # sep
         IN  <<SubSeq(s, 1, i - 1)>> \o split(SubSeq(s, i + 1, Len(s)), sep)

\* str.strip()
RECURSIVE strip(_)
strip(s) ==
    IF s # << >> /\ Head(s) = " " THEN strip(Tail(s))
    ELSE IF s # << >> /\ s[Len(s)] = " " THEN strip(SubSeq(s, 1, Len(s) - 1))
    ELSE s

\* str.isdigit()
isdigit(s) == s # << >> /\ \A i \in 1..Len(s) : s[i] \in Digits \cup {Sup2}

\* int(s) on a string without a sign: it raises ValueError unless the
\* stripped string is a non-empty run of decimal digits
IntRaises(s) == strip(s) = << >> \/ \E i \in 1..Len(strip(s)) : strip(s)[i] \notin Digits

RECURSIVE DecimalValue(_)
DecimalValue(s) ==
    IF s = << >> THEN 0
    ELSE 10 * DecimalValue(SubSeq(s, 1, Len(s) - 1)) + DigitValue(s[Len(s)])

int(s) == DecimalValue(strip(s))

SizeOptions_with_portrait ==
    {<<"1", "0", "2", "4", "x", "1", "0", "2", "4">>,
     <<"7", "6", "8", "x", "1", "0", "2", "4">>,
     <<"5", "1", "2", "x", "5", "1", "2">>}

\* st.selectbox("サイズ", ["1024x1024", "768x768", "512x512"])
SizeOptions ==
    {<<"1", "0", "2", "4", "x", "1", "0", "2", "4">>,
     <<"7", "6", "8", "x", "7", "6", "8">>,
     <<"5", "1", "2", "x", "5", "1", "2">>}

\* what the user types into the seed field
SeedTexts ==
    {<< >>, <<"0">>, <<"4", "2">>, <<" ", "7">>, <<"a">>, <<"-", "1">>, <<Sup2>>}

\* what the user types into the negative-prompt field
NegativeTexts == {"", "low quality, blurry"}

\* w, h = map(int, size.split("x"))
SizeOf(size) == [w |-> int(split(size, "x")[1]), h |-> int(split(size, "x")[2])]

\* seed = int(seed_text) if seed_text.strip().isdigit() else None
SeedRaises(seed_text) == isdigit(strip(seed_text)) /\ IntRaises(seed_text)

SeedOf(seed_text) == IF isdigit(strip(seed_text)) THEN Some(int(seed_text)) ELSE None

\* final_prompt = f"{user_prompt}, {MEIJI_BOOST}"
FinalPrompt(user_prompt) == user_prompt \o ", " \o "Japan Meiji era ..."

\* the arguments the button handler passes: lines 131-140, sliders at their defaults
UiRequest(negative, size, seed_text) ==
    Request(FinalPrompt("a brick street"), negative, 30, 70,
            SizeOf(size).w, SizeOf(size).h, SeedOf(seed_text))

\* max_retries=4 of the button handler
ButtonRetries == 4

\* max_retries: int = 3 of the signature
DefaultRetries == 3

\* the requests a direct caller passes
Requests ==
    {Request("p", neg, 30, 70, wh[1], wh[2], seed) :
        neg \in {"", " ", "blurry"},
        wh \in {<<640, 480>>},
        seed \in {None, Some(-1), Some(0), Some(42)}}

\* the answers the page's runs draw from
UiResponses ==
    {Response(503, CtJson, "est", JsonEstimate(JNum(2))),
     Response(503, CtNone, "", JsonInvalid),
     Response(503, CtImagePng, "png1", JsonInvalid),
     Response(503, CtJson, "est_null", JsonEstimate(JNull)),
     Response(200, CtImagePng, "png2", JsonInvalid),
     Response(200, CtTextPlain, "text", JsonInvalid),
     Response(404, CtJson, "obj", JsonObject)}

\* how the handler's use of the returned bytes ends: Image.open raises,
\* st.image raises while loading the data, image.save raises, or none does
Outcomes == {"open raises", "st.image raises", "save raises", "shown"}

\* st.error(f"画像生成エラー: {e}")
ErrorElement(what) == "error: " \o what

Rendered_swallow(err, outcome) ==
    IF err.kind # "none" THEN {}
    ELSE IF outcome = "open raises" THEN {ErrorElement("cannot identify image")}
    ELSE IF outcome = "st.image raises" THEN {ErrorElement("cannot load image")}
    ELSE IF outcome = "save raises" THEN {"image", ErrorElement("cannot save image")}
    ELSE {"image", "download"}

\* what lines 141-155 add to the page
Rendered(err, outcome) ==
    IF err.kind # "none" THEN {ErrorElement(err.kind)}
    ELSE IF outcome = "open raises" THEN {ErrorElement("cannot identify image")}
    ELSE IF outcome = "st.image raises" THEN {ErrorElement("cannot load image")}
    ELSE IF outcome = "save raises" THEN {"image", ErrorElement("cannot save image")}
    ELSE {"image", "download"}

----------------------------------------------------------------------------
(* The script *)

Init ==
    /\ secrets \in SecretStores
    /\ environ \in Environments
    /\ HF_TOKEN = ""
    /\ ui = {}
    /\ pc = "startup"
    /\ max_retries = 0
    /\ attempt = 0
    /\ r = NoResponse
    /\ log = << >>
    /\ result = ""
    /\ error = NoError
    /\ request = NoRequest
    /\ payload = NoPayload
    /\ caller = "none"
    /\ calls = 0

\* lines 23-27 and the page below them
Startup ==
    /\ pc = "startup"
    /\ HF_TOKEN' = get_hf_token(secrets, environ)
    /\ IF TokenMissing(HF_TOKEN')
       THEN ui' = {"error: HF_TOKEN not found"} /\ pc' = "stopped"
       ELSE ui' = {"title", "form"} /\ pc' = "ui"
    /\ UNCHANGED <<secrets, environ, max_retries, attempt, r, log, result, error>>
    /\ UNCHANGED <<request, payload, caller, calls>>

Enter_cached(req, n, who) ==
    /\ calls < MaxCalls
    /\ calls' = calls + 1
    /\ caller' = who
    /\ request' = req
    /\ payload' = Payload(req)
    /\ max_retries' = n
    /\ attempt' = 0
    /\ r' = NoResponse
    /\ log' = << >>
    /\ error' = NoError
    /\ IF calls > 0
       THEN result' = "png1" /\ pc' = "done"
       ELSE result' = "" /\ pc' = "loop"

\* call_hf_text2image(req..., max_retries = n) is entered: lines 43-63
Enter(req, n, who) ==
    /\ calls < MaxCalls
    /\ calls' = calls + 1
    /\ caller' = who
    /\ request' = req
    /\ payload' = Payload(req)
    /\ max_retries' = n
    /\ attempt' = 0
    /\ r' = NoResponse
    /\ log' = << >>
    /\ result' = ""
    /\ error' = NoError
    /\ pc' = "loop"

\* a call of call_hf_text2image(prompt, max_retries = n)
Call(n) ==
    /\ pc = "ui"
    /\ Enter(DefaultRequest, n, "direct")
    /\ UNCHANGED <<secrets, environ, HF_TOKEN, ui>>

Post_at_least_once(resp) ==
    /\ pc = "loop"
    /\ (attempt < max_retries \/ attempt = 0)
    /\ r' = resp
    /\ log' = Append(log, PostEvent(resp))
    /\ pc' = "classify"
    /\ UNCHANGED <<secrets, environ, HF_TOKEN, ui, max_retries, attempt, result, error>>
    /\ UNCHANGED <<request, payload, caller, calls>>

\* for attempt in range(max_retries): r = requests.post(...)
Post(resp) ==
    /\ pc = "loop"
    /\ attempt < max_retries
    /\ r' = resp
    /\ log' = Append(log, PostEvent(resp))
    /\ pc' = "classify"
    /\ UNCHANGED <<secrets, environ, HF_TOKEN, ui, max_retries, attempt, result, error>>
    /\ UNCHANGED <<request, payload, caller, calls>>

PostRaises_retried ==
    /\ pc = "loop"
    /\ attempt < max_retries
    /\ log' = Append(Append(log, PostEvent(NoResponse)), SleepEvent(DefaultEstimate))
    /\ attempt' = attempt + 1
    /\ pc' = "loop"
    /\ UNCHANGED <<secrets, environ, HF_TOKEN, ui, max_retries, r, result, error>>
    /\ UNCHANGED <<request, payload, caller, calls>>

\* requests.post raises (connection failure, timeout): nothing catches it
PostRaises ==
    /\ pc = "loop"
    /\ attempt < max_retries
    /\ log' = Append(log, PostEvent(NoResponse))
    /\ error' = Raised("network", NoResponse, NoBody)
    /\ pc' = "done"
    /\ UNCHANGED <<secrets, environ, HF_TOKEN, ui, max_retries, attempt, r, result>>
    /\ UNCHANGED <<request, payload, caller, calls>>

\* return r.content
ReturnImage ==
    /\ pc = "classify"
    /\ IsImageResponse(r)
    /\ result' = r.content
    /\ pc' = "done"
    /\ UNCHANGED <<secrets, environ, HF_TOKEN, ui, max_retries, attempt, r, log, error>>
    /\ UNCHANGED <<request, payload, caller, calls>>

\* the 503/504 branch: time.sleep(min(max(est, 3), 30)); continue
SleepAndRetry ==
    /\ pc = "classify"
    /\ ~IsImageResponse(r)
    /\ IsTransient(r)
    /\ IF Comparable(Estimate(r))
       THEN /\ log' = Append(log, SleepEvent(Clamp(Estimate(r).n)))
            /\ attempt' = attempt + 1
            /\ pc' = "loop"
            /\ UNCHANGED error
       ELSE /\ error' = Raised("TypeError", r, NoBody)
            /\ pc' = "done"
            /\ UNCHANGED <<log, attempt>>
    /\ UNCHANGED <<secrets, environ, HF_TOKEN, ui, max_retries, r, result>>
    /\ UNCHANGED <<request, payload, caller, calls>>

\* raise RuntimeError("HF API error: status=..., content-type=..., body=...")
RaiseApiError ==
    /\ pc = "classify"
    /\ ~IsImageResponse(r)
    /\ ~IsTransient(r)
    /\ error' = Raised("HF API error", r, ErrBody(r))
    /\ pc' = "done"
    /\ UNCHANGED <<secrets, environ, HF_TOKEN, ui, max_retries, attempt, r, log, result>>
    /\ UNCHANGED <<request, payload, caller, calls>>

\* the loop ends: raise RuntimeError(busy / loading message)
RaiseExhausted ==
    /\ pc = "loop"
    /\ ~(attempt < max_retries)
    /\ error' = Raised("exhausted", NoResponse, NoBody)
    /\ pc' = "done"
    /\ UNCHANGED <<secrets, environ, HF_TOKEN, ui, max_retries, attempt, r, log, result>>
    /\ UNCHANGED <<request, payload, caller, calls>>

\* the frame of call_hf_text2image is left: its locals are gone
Leave ==
    /\ max_retries' = 0
    /\ attempt' = 0
    /\ r' = NoResponse
    /\ log' = << >>
    /\ result' = ""
    /\ error' = NoError
    /\ request' = NoRequest
    /\ payload' = NoPayload
    /\ caller' = "none"

\* the call is over: its locals are gone
Finish ==
    /\ pc = "done"
    /\ caller = "direct"
    /\ pc' = "ui"
    /\ Leave
    /\ UNCHANGED <<secrets, environ, HF_TOKEN, ui, calls>>

\* a call of call_hf_text2image(**req) with the default max_retries
CallDirect(req) ==
    /\ pc = "ui"
    /\ Enter(req, DefaultRetries, "direct")
    /\ UNCHANGED <<secrets, environ, HF_TOKEN, ui>>

\* a run of the script with the button pressed: lines 23-27 and 96-140
Click(negative, size, seed_text) ==
    /\ pc = "ui"
    /\ HF_TOKEN' = get_hf_token(secrets, environ)
    /\ IF TokenMissing(HF_TOKEN')
       THEN /\ ui' = {"error: HF_TOKEN not found"}
            /\ pc' = "stopped"
            /\ UNCHANGED <<max_retries, attempt, r, log, result, error,
                           request, payload, caller, calls>>
       ELSE IF SeedRaises(seed_text)
       THEN /\ ui' = {"title", "form", "exception: ValueError"}
            /\ pc' = "ui"
            /\ UNCHANGED <<max_retries, attempt, r, log, result, error,
                           request, payload, caller, calls>>
       ELSE /\ ui' = {"title", "form", "spinner"}
            /\ Enter(UiRequest(negative, size, seed_text), ButtonRetries, "button")
    /\ UNCHANGED <<secrets, environ>>

\* the rest of the button handler: lines 141-155
Render(outcome) ==
    /\ pc = "done"
    /\ caller = "button"
    /\ ui' = (ui \ {"spinner"}) \cup Rendered(error, outcome)
    /\ pc' = "ui"
    /\ Leave
    /\ UNCHANGED <<secrets, environ, HF_TOKEN, calls>>

Next ==
    \/ Startup
    \/ \E n \in RetryArgs : Call(n)
    \/ \E resp \in Responses : Post(resp)
    \/ PostRaises
    \/ ReturnImage
    \/ SleepAndRetry
    \/ RaiseApiError
    \/ RaiseExhausted
    \/ Finish

Spec == Init /\ [][Next]_vars

\* the page: runs of the script with the button pressed, and direct calls
NextPage ==
    \/ Startup
    \/ \E negative \in NegativeTexts, size \in SizeOptions, seed_text \in SeedTexts :
           Click(negative, size, seed_text)
    \/ \E req \in Requests : CallDirect(req)
    \/ \E resp \in UiResponses : Post(resp)
    \/ PostRaises
    \/ ReturnImage
    \/ SleepAndRetry
    \/ RaiseApiError
    \/ RaiseExhausted
    \/ Finish
    \/ \E outcome \in Outcomes : Render(outcome)

SpecPage == Init /\ [][NextPage]_vars

----------------------------------------------------------------------------
(* Observations on the running call, used by the properties below *)

PostsOf(l) == SelectSeq(l, LAMBDA e : e.op = "post")

SleepsOf(l) == SelectSeq(l, LAMBDA e : e.op = "sleep")

\* the responses the call has received, in order
ReceivedOf(l) == [i \in 1..Len(PostsOf(l)) |-> PostsOf(l)[i].resp]

\* status 200 and a content-type beginning with "image/"
LooksLikeImage(resp) ==
    /\ resp.status = 200
    /\ Len(resp.ctype) >= 6
    /\ resp.ctype[1] = "i" /\ resp.ctype[2] = "m" /\ resp.ctype[3] = "a"
    /\ resp.ctype[4] = "g" /\ resp.ctype[5] = "e" /\ resp.ctype[6] = "/"

Is503or504(resp) == resp.status = 503 \/ resp.status = 504

Returned == pc = "done" /\ error.kind = "none"

Failed == pc = "done" /\ error.kind # "none"

----------------------------------------------------------------------------
(* C1..C7: the retry loop *)

\* C1: an attempt whose response has status 200 and a content-type beginning
\* with "image/" makes the call return that response's body at once: the
\* next step is the return, with no sleep and no POST added, and nothing is
\* added after the return either.
C1_ImageResponseReturnsAtOnce ==
    [][/\ (pc = "classify" /\ LooksLikeImage(r))
          => (pc' = "done" /\ error' = NoError /\ result' = r.content /\ log' = log)
       /\ (Returned /\ LooksLikeImage(r))
          => (log' = log \/ pc' = "ui")]_vars

C1_Witness ==
    /\ Returned
    /\ Len(PostsOf(log)) = 2
    /\ r = Response(200, CtImagePng, "png2", JsonInvalid)
    /\ result = "png2"
    /\ log[Len(log)] = PostEvent(r)

\* C2: a response that is neither 200 with an image content-type nor 503/504
\* makes the call fail with the API (transport) error on that same attempt,
\* with no sleep and no POST added, whatever number of attempts remain.
C2_OtherResponseFailsAtOnce ==
    [][(pc = "classify" /\ ~LooksLikeImage(r) /\ ~Is503or504(r))
          => /\ pc' = "done"
             /\ error'.kind = "HF API error"
             /\ error'.status = r.status
             /\ error'.ctype = r.ctype
             /\ log' = log
             /\ attempt' = attempt]_vars

C2_Witness ==
    /\ Failed
    /\ error.kind = "HF API error"
    /\ r = Response(200, CtTextPlain, "text", JsonInvalid)
    /\ max_retries = 3
    /\ log = <<PostEvent(r)>>

\* C3: with max_retries = N >= 1, a call that ended having received only
\* 503/504 responses ended with the exhausted-retries error after exactly N
\* POSTs and exactly N sleeps.
C3_AllTransientExhausts ==
    (/\ pc = "done"
     /\ max_retries >= 1
     /\ Len(PostsOf(log)) >= 1
     /\ \A i \in 1..Len(PostsOf(log)) : Is503or504(PostsOf(log)[i].resp))
    => (/\ error.kind = "exhausted"
        /\ Len(PostsOf(log)) = max_retries
        /\ Len(SleepsOf(log)) = max_retries)

\* C4: every sleep follows a 503/504 response, lasts between 3 and 30
\* seconds, and when that response reports a number e in estimated_time it
\* lasts min(max(e, 3), 30).
C4_SleepIsClamped ==
    \A i \in 1..Len(log) :
        log[i].op = "sleep" =>
            /\ i > 1
            /\ log[i - 1].op = "post"
            /\ Is503or504(log[i - 1].resp)
            /\ log[i].secs >= 3
            /\ log[i].secs <= 30
            /\ LET j == log[i - 1].resp.json
               IN  (j.kind = "object" /\ j.has /\ j.est.vt = "num") =>
                       log[i].secs = (IF j.est.n < 3 THEN 3
                                      ELSE IF j.est.n > 30 THEN 30
                                      ELSE j.est.n)

C4_Witness ==
    /\ Len(log) = 6
    /\ log[1].resp.json = JsonEstimate(JNum(-4)) /\ log[2].secs = 3
    /\ log[3].resp.json = JsonEstimate(JNum(31)) /\ log[4].secs = 30
    /\ log[5].resp.json = JsonEstimate(JNum(17)) /\ log[6].secs = 17

\* C5: a 503/504 response whose body is no JSON, or is JSON without an
\* estimated_time field, is followed by a sleep of exactly 10 seconds.
C5_DefaultEstimateIsTen ==
    [][(/\ pc = "classify"
        /\ Is503or504(r)
        /\ (r.json.kind = "invalid" \/ ~r.json.has))
          => log' = Append(log, [op |-> "sleep", resp |-> NoResponse, secs |-> 10])]_vars

C5_Witness ==
    /\ Len(log) = 6
    /\ log[1].resp.json = JsonInvalid /\ log[2].secs = 10
    /\ log[3].resp.json = JsonObject /\ log[4].secs = 10
    /\ log[5].resp.json = JsonArray /\ log[6].secs = 10

\* C6: a call whose latest response is 503 or 504 fails only with the
\* exhausted-retries error, after the last attempt: while attempts remain it
\* sleeps and goes on to the next POST.
C6_TransientNeverEscapes ==
    (/\ Failed
     /\ Len(PostsOf(log)) >= 1
     /\ Is503or504(ReceivedOf(log)[Len(PostsOf(log))]))
    => (/\ error.kind = "exhausted"
        /\ attempt = max_retries
        /\ log[Len(log)].op = "sleep")

\* C7: with max_retries = 3 and the responses [503 estimated_time = 2,
\* 503 without a body, 200 image/png], the call ends by returning the third
\* body after POST, sleep(3), POST, sleep(10), POST.
C7_First == Response(503, CtJson, "est", JsonEstimate(JNum(2)))

C7_Second == Response(503, CtNone, "", JsonInvalid)

C7_Third == Response(200, CtImagePng, "png2", JsonInvalid)

C7_Scenario ==
    (/\ max_retries = 3
     /\ ReceivedOf(log) = <<C7_First, C7_Second, C7_Third>>
     /\ pc = "done")
    => (/\ Returned
        /\ result = "png2"
        /\ log = <<PostEvent(C7_First), [op |-> "sleep", resp |-> NoResponse, secs |-> 3],
                   PostEvent(C7_Second), [op |-> "sleep", resp |-> NoResponse, secs |-> 10],
                   PostEvent(C7_Third)>>)

C7_Witness ==
    /\ max_retries = 3
    /\ ReceivedOf(log) = <<C7_First, C7_Second, C7_Third>>
    /\ Returned
    /\ Len(SleepsOf(log)) = 2

----------------------------------------------------------------------------
(* C8..C10: the credential *)

HasValue(m) == KEY \in DOMAIN m /\ m[KEY] # ""

Resolved == pc # "startup"

\* C8: a non-empty secret A wins over the environment's B; with no secret
\* entry the environment's B is used; with neither source present nothing
\* is resolved and the script stops on the missing-token error.
C8_ResolutionOrder ==
    Resolved =>
        /\ HasValue(secrets) => (HF_TOKEN = secrets[KEY] /\ pc # "stopped")
        /\ (KEY \notin DOMAIN secrets /\ HasValue(environ))
              => (HF_TOKEN = environ[KEY] /\ pc # "stopped")
        /\ (KEY \notin DOMAIN secrets /\ KEY \notin DOMAIN environ)
              => (HF_TOKEN = "" /\ pc = "stopped" /\ ui = {"error: HF_TOKEN not found"})

C8_Witness ==
    /\ pc = "ui"
    /\ HasValue(secrets) /\ HasValue(environ)
    /\ secrets[KEY] = "A" /\ environ[KEY] = "B"
    /\ HF_TOKEN = "A"

\* C9: an empty secret entry is treated like an absent one: with a
\* non-empty environment value B the resolved token is B.
C9_EmptySecretFallsThrough ==
    (/\ Resolved
     /\ KEY \in DOMAIN secrets /\ secrets[KEY] = ""
     /\ HasValue(environ))
    => (HF_TOKEN = environ[KEY] /\ pc # "stopped")

\* C10: when no source holds a non-empty value the script stops at start-up:
\* the form is never rendered, no call starts and no POST is issued.
C10_NoCredentialHalts ==
    (~HasValue(secrets) /\ ~HasValue(environ))
    => (/\ pc \in {"startup", "stopped"}
        /\ log = << >>
        /\ "form" \notin ui)

C10_Witness ==
    /\ pc = "stopped"
    /\ ~HasValue(secrets) /\ ~HasValue(environ)
    /\ ui = {"error: HF_TOKEN not found"}

----------------------------------------------------------------------------
(* C11, C12: the payload *)

InCall == pc \in {"loop", "classify", "done"}

\* C11: the parameters group of the payload has the key negative_prompt
\* exactly when the request's negative_prompt is not empty, and then with
\* the request's value.
C11_NegativePromptKey ==
    InCall =>
        /\ ("negative_prompt" \in DOMAIN payload.parameters)
              <=> (request.negative_prompt # "")
        /\ ("negative_prompt" \in DOMAIN payload.parameters)
              => payload.parameters["negative_prompt"] = request.negative_prompt

C11_Witness ==
    /\ pc = "classify"
    /\ request.negative_prompt = " "
    /\ "negative_prompt" \in DOMAIN payload.parameters
    /\ payload.parameters["negative_prompt"] = " "

\* C12: the parameters group of the payload has the key seed exactly when
\* the request's seed is not None, and then with the request's integer;
\* seed 0 is included.
C12_SeedKey ==
    InCall =>
        /\ ("seed" \in DOMAIN payload.parameters) <=> (request.seed.none = FALSE)
        /\ ("seed" \in DOMAIN payload.parameters)
              => payload.parameters["seed"] = request.seed.v

C12_Witness ==
    /\ pc = "classify"
    /\ caller = "button"
    /\ request.seed = [none |-> FALSE, v |-> 0]
    /\ "seed" \in DOMAIN payload.parameters
    /\ payload.parameters["seed"] = 0

----------------------------------------------------------------------------
(* C13..C15, C18, C19: the retry loop *)

\* C13: a requests.post that raises ends the call at once with that error:
\* the raising POST is the last entry of the log, the call is over, and the
\* error is the network error, not the API or exhausted-retries error.
C13_NetworkErrorPropagates ==
    \A i \in 1..Len(log) :
        (log[i].op = "post" /\ log[i].resp.status = 0) =>
            /\ i = Len(log)
            /\ pc = "done"
            /\ error.kind = "network"
            /\ result = ""

C13_Witness ==
    /\ pc = "done"
    /\ error.kind = "network"
    /\ max_retries = 3
    /\ attempt = 1
    /\ Len(log) = 3
    /\ log[2].op = "sleep"

\* C14: every call starts afresh (attempt 0, no response, nothing posted,
\* no result), a call that returned has posted at least once itself, and a
\* call whose first response is an image success has posted exactly once.
C14_CallsAreIndependent ==
    [][/\ (pc = "ui" /\ pc' # "ui" /\ pc' # "stopped")
          => (/\ pc' = "loop"
              /\ attempt' = 0
              /\ log' = << >>
              /\ r'.status = 0
              /\ result' = ""
              /\ error'.kind = "none")
       /\ (pc' = "done" /\ error'.kind = "none")
          => (/\ Len(PostsOf(log')) >= 1
              /\ LooksLikeImage(PostsOf(log')[1].resp) => Len(PostsOf(log')) = 1)]_vars

C14_Witness ==
    /\ calls = 2
    /\ request.prompt = "a street"
    /\ Returned
    /\ Len(log) = 1
    /\ LooksLikeImage(log[1].resp)

\* C15: a finished call with max_retries >= 1 ended in exactly one of:
\* returned bytes, API error, network error, exhausted retries; and it
\* issued between 1 and max_retries POSTs.
C15_FourOutcomes ==
    (pc = "done" /\ max_retries >= 1)
    => (/\ error.kind \in {"none", "HF API error", "network", "exhausted"}
        /\ Len(PostsOf(log)) >= 1
        /\ Len(PostsOf(log)) <= max_retries)

\* C18: a call returns only when its last response is 200 with an image
\* content-type, and returns that response's body; a 503/504 response with
\* an image content-type is never the one returned: the call sleeps after it.
C18_OnlyImage200Returns ==
    /\ Returned =>
          /\ Len(PostsOf(log)) >= 1
          /\ log[Len(log)].op = "post"
          /\ LooksLikeImage(log[Len(log)].resp)
          /\ result = log[Len(log)].resp.content
    /\ \A i \in 1..Len(log) :
          (/\ log[i].op = "post"
           /\ Is503or504(log[i].resp)
           /\ Len(log[i].resp.ctype) >= 6
           /\ SubSeq(log[i].resp.ctype, 1, 6) = <<"i", "m", "a", "g", "e", "/">>)
          => (/\ i = Len(log) => ~Returned
              /\ i < Len(log) => log[i + 1].op = "sleep")

C18_Witness ==
    /\ Returned
    /\ Len(log) = 3
    /\ log[1].resp.status = 503
    /\ log[1].resp.ctype = CtImagePng
    /\ log[1].resp.content = "png1"
    /\ log[2].op = "sleep"
    /\ result = "png2"

\* C19: a call with max_retries <= 0 issues no POST, performs no sleep and
\* fails with the exhausted-retries error.
C19_NoAttempts ==
    (InCall /\ max_retries <= 0)
    => (/\ log = << >>
        /\ pc # "classify"
        /\ pc = "done" => error.kind = "exhausted")

C19_Witness ==
    /\ pc = "done"
    /\ max_retries = -1
    /\ error.kind = "exhausted"
    /\ log = << >>

----------------------------------------------------------------------------
(* C16, C17: the button handler *)

CallFailures == {"HF API error", "exhausted", "network", "TypeError"}

DecodeFailures == {"error: cannot identify image", "error: cannot load image"}

\* C16: when the button handler ends after a failed call or a failure to
\* decode the returned bytes, the page shows the error message and neither
\* the image nor the download; no handler ends showing nothing.
C16_FailuresAreRendered ==
    [][(pc = "done" /\ caller = "button" /\ pc' = "ui") =>
          /\ error.kind \in CallFailures
                => (/\ ("error: " \o error.kind) \in ui'
                    /\ "image" \notin ui'
                    /\ "download" \notin ui')
          /\ (ui' \cap DecodeFailures # {})
                => (/\ error.kind = "none"
                    /\ "image" \notin ui'
                    /\ "download" \notin ui')
          /\ \/ \E e \in ui' : e \notin {"title", "form", "spinner", "image", "download"}
             \/ {"image", "download"} \subseteq ui']_vars

C16_Witness ==
    /\ pc = "ui"
    /\ "error: exhausted" \in ui
    /\ "image" \notin ui
    /\ "download" \notin ui
    /\ calls = 2

\* C17: every request of the button handler has width and height in
\* {512, 768, 1024} and width = height.
C17_SquareSizes ==
    caller = "button" =>
        /\ request.width \in {512, 768, 1024}
        /\ request.height \in {512, 768, 1024}
        /\ request.width = request.height

C17_Witness ==
    /\ caller = "button"
    /\ pc = "classify"
    /\ request.width = 768
    /\ request.height = 768
    /\ max_retries = 4

====
